---- MODULE Spec2Model ----
(***************************************************************************)
(* Verification model of the VrPlayer server core:                         *)
(*   - MultiplayerServer (room registry, src/multiplayer_server.rs)        *)
(*   - AuthService       (credential store, src/auth_server.rs)            *)
(*   - MatchmakingService (per-game FIFO, src/multiplayer_server.rs)       *)
(* Every Mutex of the source is a lock variable; each critical section is  *)
(* one step taken while the lock is held, and the calls of several worker  *)
(* threads interleave between critical sections exactly as the source      *)
(* releases and re-acquires its locks.                                     *)
(***************************************************************************)
EXTENDS Integers, Sequences, FiniteSets, TLC

\* ------------------------------------------------------------------ bounds
NumWorkers == 2
NumPlayers == 2
MaxRooms == 2
MaxCapacity == 2
MaxPose == 1
MaxUsers == 2
NumQueued == 4
MaxRequired == 3
MaxMatchCalls == 3
MaxWaiting == 3
MaxBroadcasts == 2
MaxEnrolled == 2
MaxLogins == 2
MaxTokens == 2

Workers == 1..NumWorkers
Players == 1..NumPlayers
RoomIds == 1..MaxRooms
Capacities == 0..MaxCapacity
Poses == 0..MaxPose
GameIds == {"g"}
HostIds == {1}
JoinPoses == {0}
UserIds == 1..MaxUsers
QueuePlayers == 1..NumQueued
QueueGames == {"g", "h"}

\* ------------------------------------------------------------- state
VARIABLES
    rooms,           \* MultiplayerServer.rooms: room_id -> GameRoom
    player_to_room,  \* MultiplayerServer.player_to_room: player_id -> room_id
    rooms_lock,      \* holder of the rooms Mutex (0 = free)
    p2r_lock,        \* holder of the player_to_room Mutex (0 = free)
    uuid_count,      \* number of room uuids generated so far
    pc,              \* per worker: position inside the current call
    call,            \* per worker: the current (or last completed) call
    ret,             \* per worker: the value the last call returned
    log,             \* observer's record of calls (written by the test drivers only)
    users,           \* AuthService.users: user id -> User
    email_to_id,     \* AuthService.email_to_id: email -> user id
    users_lock,      \* holder of the users Mutex (0 = free)
    email_lock,      \* holder of the email_to_id Mutex (0 = free)
    user_count,      \* number of user uuids generated so far
    now,             \* the clock (Utc::now().timestamp()), in seconds
    queue,           \* MatchmakingService.queue: game_id -> Vec of player ids
    queue_lock,      \* holder of the queue Mutex (0 = free)
    active_channels, \* VoiceChatServer.active_channels: room_id -> Vec of player ids
    voice_lock,      \* holder of the active_channels Mutex (0 = free)
    sent,            \* the deliveries initiated so far, in order
    connections,     \* MultiplayerServer.connections: player_id -> address
    connections_lock \* holder of the connections Mutex (0 = free)

room_vars == <<rooms, player_to_room, rooms_lock, p2r_lock, uuid_count>>

auth_vars == <<users, email_to_id, users_lock, email_lock, user_count, now>>

match_vars == <<queue, queue_lock>>

voice_vars == <<active_channels, voice_lock>>

conn_vars == <<connections, connections_lock>>

worker_vars == <<pc, call, ret>>

\* ------------------------------------------------- HashMap / Option / Result
MapInsert(m, k, v) == [x \in DOMAIN m \cup {k} |-> IF x = k THEN v ELSE m[x]]

MapRemove(m, k) == [x \in DOMAIN m \ {k} |-> m[x]]

EmptyMap == [x \in {} |-> 0]

None == [kind |-> "None"]

Some(v) == [kind |-> "Some", val |-> v]

Ok == [kind |-> "Ok"]

Err(msg) == [kind |-> "Err", msg |-> msg]

Pending == [kind |-> "Pending"]

Free == 0

\* ------------------------------------------------------------- GameRoom
PlayerState(player_id, transform) == [player_id |-> player_id, transform |-> transform]

GameRoom_new(room_id, game_id, host_id, max_players) ==
    [room_id |-> room_id, game_id |-> game_id, host_id |-> host_id,
     max_players |-> max_players, players |-> <<>>, is_public |-> TRUE]

player_count(room) == Len(room.players)

\* variant of is_full with the comparison off by one (used to test the claims)
is_full_off_by_one(room) == Len(room.players) > room.max_players

is_full(room) == Len(room.players) >= room.max_players

\* add_player: the pair <<returned bool, room afterwards>>
add_player(room, player) ==
    IF Len(room.players) >= room.max_players
    THEN <<FALSE, room>>
    ELSE <<TRUE, [room EXCEPT !.players = Append(@, player)]>>

\* Vec::retain keeps, in order, the elements the predicate accepts
RECURSIVE RetainOthers(_, _)
RetainOthers(players, player_id) ==
    IF players = <<>> THEN <<>>
    ELSE IF Head(players).player_id # player_id
         THEN <<Head(players)>> \o RetainOthers(Tail(players), player_id)
         ELSE RetainOthers(Tail(players), player_id)

remove_player(room, player_id) ==
    [room EXCEPT !.players = RetainOthers(@, player_id)]

\* iter_mut().find(..): only the first record with this id is updated
GameRoom_update_player(room, player_id, transform) ==
    IF \E i \in 1..Len(room.players) : room.players[i].player_id = player_id
    THEN LET i == CHOOSE i \in 1..Len(room.players) :
                    /\ room.players[i].player_id = player_id
                    /\ \A j \in 1..(i - 1) : room.players[j].player_id # player_id
         IN [room EXCEPT !.players[i].transform = transform]
    ELSE room

PlayerIds(room) == {room.players[i].player_id : i \in 1..Len(room.players)}

get_room_players(room_id) ==
    IF room_id \in DOMAIN rooms THEN rooms[room_id].players ELSE <<>>

get_room(room_id) ==
    IF room_id \in DOMAIN rooms THEN Some(rooms[room_id]) ELSE None

\* ------------------------------------------------------ MultiplayerServer
RoomInit ==
    /\ rooms = EmptyMap
    /\ player_to_room = EmptyMap
    /\ rooms_lock = Free
    /\ p2r_lock = Free
    /\ uuid_count = 0
    /\ pc = [w \in Workers |-> "idle"]
    /\ call = [w \in Workers |-> [op |-> "none"]]
    /\ ret = [w \in Workers |-> Pending]

Ready(w) == pc[w] \in {"idle", "done"}

\* the call returns: its arguments go out of scope, the caller holds the value
Return(w, value) ==
    /\ pc' = [pc EXCEPT ![w] = "done"]
    /\ ret' = [ret EXCEPT ![w] = value]
    /\ call' = [call EXCEPT ![w] = [op |-> call[w].op]]

Goto(w, label) ==
    /\ pc' = [pc EXCEPT ![w] = label]
    /\ ret' = ret
    /\ call' = call

\* create_room: a fresh uuid names the room, then rooms.lock()
create_room_call(w, game_id, host_id, max_players) ==
    /\ Ready(w)
    /\ uuid_count < MaxRooms
    /\ rooms_lock = Free
    /\ uuid_count' = uuid_count + 1
    /\ rooms_lock' = w
    /\ call' = [call EXCEPT ![w] =
                  [op |-> "create_room",
                   room |-> GameRoom_new(uuid_count + 1, game_id, host_id, max_players)]]
    /\ pc' = [pc EXCEPT ![w] = "create_locked"]
    /\ ret' = [ret EXCEPT ![w] = Pending]
    /\ UNCHANGED <<rooms, player_to_room, p2r_lock>>

\* variant of create_room_insert that seats the host in the new room
create_room_insert_seats_host(w) ==
    /\ pc[w] = "create_locked"
    /\ rooms' = MapInsert(rooms, call[w].room.room_id,
                          [call[w].room EXCEPT
                             !.players = <<PlayerState(call[w].room.host_id, 0)>>])
    /\ rooms_lock' = Free
    /\ Return(w, Some(call[w].room.room_id))
    /\ UNCHANGED <<player_to_room, p2r_lock, uuid_count>>

create_room_insert(w) ==
    /\ pc[w] = "create_locked"
    /\ rooms' = MapInsert(rooms, call[w].room.room_id, call[w].room)
    /\ rooms_lock' = Free
    /\ Return(w, Some(call[w].room.room_id))
    /\ UNCHANGED <<player_to_room, p2r_lock, uuid_count>>

\* join_room: rooms.lock()
join_room_call(w, room_id, player) ==
    /\ Ready(w)
    /\ rooms_lock = Free
    /\ rooms_lock' = w
    /\ call' = [call EXCEPT ![w] =
                  [op |-> "join_room", room_id |-> room_id, player |-> player]]
    /\ pc' = [pc EXCEPT ![w] = "join_locked"]
    /\ ret' = [ret EXCEPT ![w] = Pending]
    /\ UNCHANGED <<rooms, player_to_room, p2r_lock, uuid_count>>

\* variant of join_room_cs that appends without any capacity check
join_room_cs_unchecked(w) ==
    /\ pc[w] = "join_locked"
    /\ LET room_id == call[w].room_id
       IN IF room_id \in DOMAIN rooms
          THEN /\ rooms' = [rooms EXCEPT ![room_id].players = Append(@, call[w].player)]
               /\ Goto(w, "join_wait_p2r")
          ELSE /\ Return(w, Err("Room not found"))
               /\ rooms' = rooms
    /\ rooms_lock' = Free
    /\ UNCHANGED <<player_to_room, p2r_lock, uuid_count>>

\* join_room: the critical section under the rooms lock, to drop(rooms) or return
\* variant of join_room_cs that still holds the rooms guard when it goes on
\* to the reverse index
join_room_cs_keeps_guard(w) ==
    /\ pc[w] = "join_locked"
    /\ LET room_id == call[w].room_id
       IN IF room_id \in DOMAIN rooms
          THEN IF is_full(rooms[room_id])
               THEN /\ Return(w, Err("Room is full"))
                    /\ rooms' = rooms
                    /\ rooms_lock' = Free
               ELSE LET added == add_player(rooms[room_id], call[w].player)
                    IN IF added[1]
                       THEN /\ rooms' = [rooms EXCEPT ![room_id] = added[2]]
                            /\ Goto(w, "join_wait_p2r")
                            /\ rooms_lock' = rooms_lock
                       ELSE /\ Return(w, Err("Failed to add player to room"))
                            /\ rooms' = rooms
                            /\ rooms_lock' = Free
          ELSE /\ Return(w, Err("Room not found"))
               /\ rooms' = rooms
               /\ rooms_lock' = Free
    /\ UNCHANGED <<player_to_room, p2r_lock, uuid_count>>

join_room_cs(w) ==
    /\ pc[w] = "join_locked"
    /\ LET room_id == call[w].room_id
       IN IF room_id \in DOMAIN rooms
          THEN IF is_full(rooms[room_id])
               THEN /\ Return(w, Err("Room is full"))
                    /\ rooms' = rooms
               ELSE LET added == add_player(rooms[room_id], call[w].player)
                    IN IF added[1]
                       THEN /\ rooms' = [rooms EXCEPT ![room_id] = added[2]]
                            /\ Goto(w, "join_wait_p2r")
                       ELSE /\ Return(w, Err("Failed to add player to room"))
                            /\ rooms' = rooms
          ELSE /\ Return(w, Err("Room not found"))
               /\ rooms' = rooms
    /\ rooms_lock' = Free
    /\ UNCHANGED <<player_to_room, p2r_lock, uuid_count>>

\* join_room: player_to_room.lock(), after the rooms lock was dropped
join_room_lock_p2r(w) ==
    /\ pc[w] = "join_wait_p2r"
    /\ p2r_lock = Free
    /\ p2r_lock' = w
    /\ Goto(w, "join_p2r_locked")
    /\ UNCHANGED <<rooms, player_to_room, rooms_lock, uuid_count>>

join_room_index(w) ==
    /\ pc[w] = "join_p2r_locked"
    /\ player_to_room' = MapInsert(player_to_room, call[w].player.player_id, call[w].room_id)
    /\ p2r_lock' = Free
    /\ Return(w, Ok)
    /\ UNCHANGED <<rooms, rooms_lock, uuid_count>>

\* leave_room: player_to_room.lock()
leave_room_call(w, player_id) ==
    /\ Ready(w)
    /\ p2r_lock = Free
    /\ p2r_lock' = w
    /\ call' = [call EXCEPT ![w] = [op |-> "leave_room", player_id |-> player_id, room_id |-> 0]]
    /\ pc' = [pc EXCEPT ![w] = "leave_p2r_locked"]
    /\ ret' = [ret EXCEPT ![w] = Pending]
    /\ UNCHANGED <<rooms, player_to_room, rooms_lock, uuid_count>>

\* leave_room: player_to_room.remove(player_id), then drop or fall through to None
leave_room_index(w) ==
    /\ pc[w] = "leave_p2r_locked"
    /\ LET player_id == call[w].player_id
       IN IF player_id \in DOMAIN player_to_room
          THEN /\ player_to_room' = MapRemove(player_to_room, player_id)
               /\ call' = [call EXCEPT ![w].room_id = player_to_room[player_id]]
               /\ pc' = [pc EXCEPT ![w] = "leave_wait_rooms"]
               /\ ret' = ret
          ELSE /\ player_to_room' = player_to_room
               /\ Return(w, None)
    /\ p2r_lock' = Free
    /\ UNCHANGED <<rooms, rooms_lock, uuid_count>>

leave_room_lock_rooms(w) ==
    /\ pc[w] = "leave_wait_rooms"
    /\ rooms_lock = Free
    /\ rooms_lock' = w
    /\ Goto(w, "leave_rooms_locked")
    /\ UNCHANGED <<rooms, player_to_room, p2r_lock, uuid_count>>

\* variant of leave_room_cs that never deletes the emptied room
leave_room_cs_keeps_empty(w) ==
    /\ pc[w] = "leave_rooms_locked"
    /\ LET room_id == call[w].room_id
       IN IF room_id \in DOMAIN rooms
          THEN /\ rooms' = [rooms EXCEPT ![room_id] = remove_player(@, call[w].player_id)]
               /\ Return(w, Some(room_id))
          ELSE /\ rooms' = rooms
               /\ Return(w, None)
    /\ rooms_lock' = Free
    /\ UNCHANGED <<player_to_room, p2r_lock, uuid_count>>

\* leave_room: remove the player and delete the room if it is now empty
leave_room_cs(w) ==
    /\ pc[w] = "leave_rooms_locked"
    /\ LET room_id == call[w].room_id
       IN IF room_id \in DOMAIN rooms
          THEN LET room == remove_player(rooms[room_id], call[w].player_id)
               IN /\ rooms' = IF player_count(room) = 0
                              THEN MapRemove(rooms, room_id)
                              ELSE [rooms EXCEPT ![room_id] = room]
                  /\ Return(w, Some(room_id))
          ELSE /\ rooms' = rooms
               /\ Return(w, None)
    /\ rooms_lock' = Free
    /\ UNCHANGED <<player_to_room, p2r_lock, uuid_count>>

\* update_player: player_to_room.lock()
update_player_call(w, player_id, transform) ==
    /\ Ready(w)
    /\ p2r_lock = Free
    /\ p2r_lock' = w
    /\ call' = [call EXCEPT ![w] = [op |-> "update_player", player_id |-> player_id,
                                    transform |-> transform, room_id |-> 0]]
    /\ pc' = [pc EXCEPT ![w] = "update_p2r_locked"]
    /\ ret' = [ret EXCEPT ![w] = Pending]
    /\ UNCHANGED <<rooms, player_to_room, rooms_lock, uuid_count>>

update_player_index(w) ==
    /\ pc[w] = "update_p2r_locked"
    /\ LET player_id == call[w].player_id
       IN IF player_id \in DOMAIN player_to_room
          THEN /\ call' = [call EXCEPT ![w].room_id = player_to_room[player_id]]
               /\ pc' = [pc EXCEPT ![w] = "update_wait_rooms"]
               /\ ret' = ret
          ELSE Return(w, None)
    /\ p2r_lock' = Free
    /\ UNCHANGED <<rooms, player_to_room, rooms_lock, uuid_count>>

update_player_lock_rooms(w) ==
    /\ pc[w] = "update_wait_rooms"
    /\ rooms_lock = Free
    /\ rooms_lock' = w
    /\ Goto(w, "update_rooms_locked")
    /\ UNCHANGED <<rooms, player_to_room, p2r_lock, uuid_count>>

update_player_cs(w) ==
    /\ pc[w] = "update_rooms_locked"
    /\ LET room_id == call[w].room_id
       IN IF room_id \in DOMAIN rooms
          THEN /\ rooms' = [rooms EXCEPT ![room_id] =
                              GameRoom_update_player(@, call[w].player_id, call[w].transform)]
               /\ Return(w, Some(room_id))
          ELSE /\ rooms' = rooms
               /\ Return(w, None)
    /\ rooms_lock' = Free
    /\ UNCHANGED <<player_to_room, p2r_lock, uuid_count>>

\* ------------------------------------------------------------ AuthService
\* Strings are sequences of characters.
Usernames == {<<"a", "l">>, <<"a", "l", "i", "c", "e">>, <<"b", "o", "b">>}

Emails == {<<"a", "@", "x">>, <<"b", "@", "x">>, <<"a", "x">>}

Passwords == {<<"p", "w">>,
              <<"p", "a", "s", "s", "w", "o", "r", "d">>,
              <<"h", "u", "n", "t", "e", "r", "2", "2">>}

Avatars == {None, Some("pic")}

SignupRequests == [username : Usernames, email : Emails, password : Passwords]

LoginRequests == [email : Emails, password : Passwords]

Contains(str, ch) == \E i \in 1..Len(str) : str[i] = ch

MinUsernameLen == 3

MinPasswordLen == 8

TokenLifetimeDays == 30

\* bcrypt: the hash is salted and opaque; verify accepts exactly the password hashed
bcrypt_hash(password) == [bcrypt |-> password]

bcrypt_verify(password, password_hash) == password_hash.bcrypt = password

AuthResponse(success, message, token, user) ==
    [success |-> success, message |-> message, token |-> token, user |-> user]

Failure(message) == AuthResponse(FALSE, message, None, None)

User(id, request, password_hash) ==
    [id |-> id, username |-> request.username, email |-> request.email,
     password_hash |-> password_hash, avatar_url |-> None]

user_to_profile(user) ==
    [id |-> user.id, username |-> user.username, email |-> user.email,
     avatar_url |-> user.avatar_url]

SecondsPerDay == 86400

TokenLifetime == TokenLifetimeDays * SecondsPerDay

generate_token(user_id) ==
    [sub |-> user_id, exp |-> now + TokenLifetime, iat |-> now]

\* Validation::default() of jsonwebtoken: exp is validated with a leeway,
\* which is 0 seconds in the 7.x releases and 60 seconds from 8.0 on
Leeways == {0, 60}

\* verify_token: decode rejects the token when exp < now - leeway
verify_token(token, leeway) ==
    IF token.exp < now - leeway THEN None ELSE Some(token.sub)

AuthInit ==
    /\ users = EmptyMap
    /\ email_to_id = EmptyMap
    /\ users_lock = Free
    /\ email_lock = Free
    /\ user_count = 0
    /\ now = 0

\* signup: input validation, first failure reported
signup_call(w, request) ==
    /\ Ready(w)
    /\ call' = [call EXCEPT ![w] = [op |-> "signup", request |-> request]]
    /\ IF Len(request.username) < MinUsernameLen
       THEN /\ pc' = [pc EXCEPT ![w] = "done"]
            /\ ret' = [ret EXCEPT ![w] = Failure("Username must be at least 3 characters")]
       ELSE IF ~Contains(request.email, "@")
       THEN /\ pc' = [pc EXCEPT ![w] = "done"]
            /\ ret' = [ret EXCEPT ![w] = Failure("Invalid email address")]
       ELSE IF Len(request.password) < MinPasswordLen
       THEN /\ pc' = [pc EXCEPT ![w] = "done"]
            /\ ret' = [ret EXCEPT ![w] = Failure("Password must be at least 8 characters")]
       ELSE /\ pc' = [pc EXCEPT ![w] = "signup_check_wait"]
            /\ ret' = [ret EXCEPT ![w] = Pending]
    /\ UNCHANGED auth_vars

signup_check_lock(w) ==
    /\ pc[w] = "signup_check_wait"
    /\ email_lock = Free
    /\ email_lock' = w
    /\ Goto(w, "signup_check_locked")
    /\ UNCHANGED <<users, email_to_id, users_lock, user_count, now>>

\* signup: email_map.contains_key under the email lock, released at the block's end
signup_check(w) ==
    /\ pc[w] = "signup_check_locked"
    /\ IF call[w].request.email \in DOMAIN email_to_id
       THEN Return(w, Failure("Email already registered"))
       ELSE Goto(w, "signup_hash")
    /\ email_lock' = Free
    /\ UNCHANGED <<users, email_to_id, users_lock, user_count, now>>

\* signup: hash the password (it may fail), then name the user with a fresh uuid
signup_hash(w, hashed) ==
    /\ pc[w] = "signup_hash"
    /\ IF hashed
       THEN /\ user_count < MaxUsers
            /\ user_count' = user_count + 1
            /\ call' = [call EXCEPT ![w] =
                          [op |-> "signup", request |-> call[w].request,
                           user |-> User(user_count + 1, call[w].request,
                                         bcrypt_hash(call[w].request.password))]]
            /\ pc' = [pc EXCEPT ![w] = "signup_users_wait"]
            /\ ret' = ret
       ELSE /\ user_count' = user_count
            /\ Return(w, Failure("Internal server error"))
    /\ UNCHANGED <<users, email_to_id, users_lock, email_lock, now>>

signup_users_lock(w) ==
    /\ pc[w] = "signup_users_wait"
    /\ users_lock = Free
    /\ users_lock' = w
    /\ Goto(w, "signup_users_locked")
    /\ UNCHANGED <<users, email_to_id, email_lock, user_count, now>>

\* variant of signup_users_insert that leaves the profile out of the map
signup_users_insert_skipped(w) ==
    /\ pc[w] = "signup_users_locked"
    /\ users' = users
    /\ users_lock' = Free
    /\ Goto(w, "signup_email_wait")
    /\ UNCHANGED <<email_to_id, email_lock, user_count, now>>

signup_users_insert(w) ==
    /\ pc[w] = "signup_users_locked"
    /\ users' = MapInsert(users, call[w].user.id, call[w].user)
    /\ users_lock' = Free
    /\ Goto(w, "signup_email_wait")
    /\ UNCHANGED <<email_to_id, email_lock, user_count, now>>

signup_email_lock(w) ==
    /\ pc[w] = "signup_email_wait"
    /\ email_lock = Free
    /\ email_lock' = w
    /\ Goto(w, "signup_email_locked")
    /\ UNCHANGED <<users, email_to_id, users_lock, user_count, now>>

\* signup: email_map.insert, then the token and the response
signup_email_insert(w) ==
    /\ pc[w] = "signup_email_locked"
    /\ email_to_id' = MapInsert(email_to_id, call[w].request.email, call[w].user.id)
    /\ email_lock' = Free
    /\ Return(w, AuthResponse(TRUE, "Account created successfully",
                              Some(generate_token(call[w].user.id)),
                              Some(user_to_profile(call[w].user))))
    /\ UNCHANGED <<users, users_lock, user_count, now>>

\* login: email_to_id.lock()
login_call(w, request) ==
    /\ Ready(w)
    /\ email_lock = Free
    /\ email_lock' = w
    /\ call' = [call EXCEPT ![w] = [op |-> "login", request |-> request]]
    /\ pc' = [pc EXCEPT ![w] = "login_email_locked"]
    /\ ret' = [ret EXCEPT ![w] = Pending]
    /\ UNCHANGED <<users, email_to_id, users_lock, user_count, now>>

login_find_id(w) ==
    /\ pc[w] = "login_email_locked"
    /\ IF call[w].request.email \in DOMAIN email_to_id
       THEN /\ call' = [call EXCEPT ![w] =
                          [op |-> "login", request |-> call[w].request,
                           user_id |-> email_to_id[call[w].request.email]]]
            /\ pc' = [pc EXCEPT ![w] = "login_users_wait"]
            /\ ret' = ret
       ELSE Return(w, Failure("Invalid email or password"))
    /\ email_lock' = Free
    /\ UNCHANGED <<users, email_to_id, users_lock, user_count, now>>

login_users_lock(w) ==
    /\ pc[w] = "login_users_wait"
    /\ users_lock = Free
    /\ users_lock' = w
    /\ Goto(w, "login_users_locked")
    /\ UNCHANGED <<users, email_to_id, email_lock, user_count, now>>

\* variant of login_get_user that names the password as the reason
login_get_user_tells(w) ==
    /\ pc[w] = "login_users_locked"
    /\ IF call[w].user_id \in DOMAIN users
       THEN LET user == users[call[w].user_id]
            IN IF bcrypt_verify(call[w].request.password, user.password_hash)
               THEN Return(w, AuthResponse(TRUE, "Login successful",
                                           Some(generate_token(user.id)),
                                           Some(user_to_profile(user))))
               ELSE Return(w, Failure("Invalid password"))
       ELSE Return(w, Failure("User not found"))
    /\ users_lock' = Free
    /\ UNCHANGED <<users, email_to_id, email_lock, user_count, now>>

\* login: users.get, then (outside the lock) verify and the response
login_get_user(w) ==
    /\ pc[w] = "login_users_locked"
    /\ IF call[w].user_id \in DOMAIN users
       THEN LET user == users[call[w].user_id]
            IN IF bcrypt_verify(call[w].request.password, user.password_hash)
               THEN Return(w, AuthResponse(TRUE, "Login successful",
                                           Some(generate_token(user.id)),
                                           Some(user_to_profile(user))))
               ELSE Return(w, Failure("Invalid email or password"))
       ELSE Return(w, Failure("User not found"))
    /\ users_lock' = Free
    /\ UNCHANGED <<users, email_to_id, email_lock, user_count, now>>

\* verify_token takes no lock: one step
verify_token_call(w, token, leeway) ==
    /\ Ready(w)
    /\ call' = [call EXCEPT ![w] = [op |-> "verify_token", token |-> token]]
    /\ pc' = [pc EXCEPT ![w] = "done"]
    /\ ret' = [ret EXCEPT ![w] = verify_token(token, leeway)]
    /\ UNCHANGED auth_vars

\* the clock moves on
tick(instant) ==
    /\ instant > now
    /\ now' = instant
    /\ UNCHANGED <<users, email_to_id, users_lock, email_lock, user_count, worker_vars>>

\* update_user: users.lock()
update_user_call(w, user_id, avatar_url) ==
    /\ Ready(w)
    /\ users_lock = Free
    /\ users_lock' = w
    /\ call' = [call EXCEPT ![w] =
                  [op |-> "update_user", user_id |-> user_id, avatar_url |-> avatar_url]]
    /\ pc' = [pc EXCEPT ![w] = "update_user_locked"]
    /\ ret' = [ret EXCEPT ![w] = Pending]
    /\ UNCHANGED <<users, email_to_id, email_lock, user_count, now>>

update_user_cs(w) ==
    /\ pc[w] = "update_user_locked"
    /\ IF call[w].user_id \in DOMAIN users
       THEN /\ users' = [users EXCEPT ![call[w].user_id].avatar_url = call[w].avatar_url]
            /\ Return(w, TRUE)
       ELSE /\ users' = users
            /\ Return(w, FALSE)
    /\ users_lock' = Free
    /\ UNCHANGED <<email_to_id, email_lock, user_count, now>>

\* ----------------------------------------------------- MatchmakingService
MatchInit ==
    /\ queue = EmptyMap
    /\ queue_lock = Free

\* join_queue: queue.lock()
join_queue_call(w, game_id, player_id) ==
    /\ Ready(w)
    /\ queue_lock = Free
    /\ queue_lock' = w
    /\ call' = [call EXCEPT ![w] =
                  [op |-> "join_queue", game_id |-> game_id, player_id |-> player_id]]
    /\ pc' = [pc EXCEPT ![w] = "join_queue_locked"]
    /\ ret' = [ret EXCEPT ![w] = Pending]
    /\ UNCHANGED queue

\* join_queue: entry(game_id).or_insert_with(Vec::new).push(player_id)
join_queue_push(w) ==
    /\ pc[w] = "join_queue_locked"
    /\ LET g == call[w].game_id
           players == IF g \in DOMAIN queue THEN queue[g] ELSE <<>>
       IN queue' = MapInsert(queue, g, Append(players, call[w].player_id))
    /\ queue_lock' = Free
    /\ Return(w, Ok)

\* leave_queue: queue.lock()
leave_queue_call(w, game_id, player_id) ==
    /\ Ready(w)
    /\ queue_lock = Free
    /\ queue_lock' = w
    /\ call' = [call EXCEPT ![w] =
                  [op |-> "leave_queue", game_id |-> game_id, player_id |-> player_id]]
    /\ pc' = [pc EXCEPT ![w] = "leave_queue_locked"]
    /\ ret' = [ret EXCEPT ![w] = Pending]
    /\ UNCHANGED queue

\* variant of leave_queue_retain that takes out the first occurrence only
leave_queue_retain_first(w) ==
    /\ pc[w] = "leave_queue_locked"
    /\ LET g == call[w].game_id
           p == call[w].player_id
       IN queue' = IF g \in DOMAIN queue /\ \E k \in 1..Len(queue[g]) : queue[g][k] = p
                   THEN LET k == CHOOSE k \in 1..Len(queue[g]) :
                                    /\ queue[g][k] = p
                                    /\ \A j \in 1..(k - 1) : queue[g][j] # p
                        IN [queue EXCEPT ![g] = SubSeq(@, 1, k - 1) \o SubSeq(@, k + 1, Len(@))]
                   ELSE queue
    /\ queue_lock' = Free
    /\ Return(w, Ok)

\* leave_queue: players.retain(|p| p != player_id)
leave_queue_retain(w) ==
    /\ pc[w] = "leave_queue_locked"
    /\ LET g == call[w].game_id
       IN queue' = IF g \in DOMAIN queue
                   THEN [queue EXCEPT ![g] = SelectSeq(@, LAMBDA p : p # call[w].player_id)]
                   ELSE queue
    /\ queue_lock' = Free
    /\ Return(w, Ok)

\* find_match: queue.lock()
find_match_call(w, game_id, required_players) ==
    /\ Ready(w)
    /\ queue_lock = Free
    /\ queue_lock' = w
    /\ call' = [call EXCEPT ![w] =
                  [op |-> "find_match", game_id |-> game_id,
                   required_players |-> required_players]]
    /\ pc' = [pc EXCEPT ![w] = "find_match_locked"]
    /\ ret' = [ret EXCEPT ![w] = Pending]
    /\ UNCHANGED queue

\* variant of find_match_drain that wants more players waiting than it takes
find_match_strict(w) ==
    /\ pc[w] = "find_match_locked"
    /\ LET g == call[w].game_id
           n == call[w].required_players
       IN IF g \in DOMAIN queue /\ Len(queue[g]) > n
          THEN /\ queue' = [queue EXCEPT ![g] = SubSeq(@, n + 1, Len(@))]
               /\ Return(w, Some(SubSeq(queue[g], 1, n)))
          ELSE /\ queue' = queue
               /\ Return(w, None)
    /\ queue_lock' = Free

\* variant of find_match_drain that copies the first entries and leaves them queued
find_match_copy(w) ==
    /\ pc[w] = "find_match_locked"
    /\ LET g == call[w].game_id
           n == call[w].required_players
       IN IF g \in DOMAIN queue /\ Len(queue[g]) >= n
          THEN Return(w, Some(SubSeq(queue[g], 1, n)))
          ELSE Return(w, None)
    /\ queue' = queue
    /\ queue_lock' = Free

\* variant of find_match_drain that empties the queue and returns its first entries
find_match_drain_all(w) ==
    /\ pc[w] = "find_match_locked"
    /\ LET g == call[w].game_id
           n == call[w].required_players
       IN IF g \in DOMAIN queue /\ Len(queue[g]) >= n
          THEN /\ queue' = [queue EXCEPT ![g] = <<>>]
               /\ Return(w, Some(SubSeq(queue[g], 1, n)))
          ELSE /\ queue' = queue
               /\ Return(w, None)
    /\ queue_lock' = Free

\* find_match: players.drain(0..required_players) when enough players wait
find_match_drain(w) ==
    /\ pc[w] = "find_match_locked"
    /\ LET g == call[w].game_id
           n == call[w].required_players
       IN IF g \in DOMAIN queue /\ Len(queue[g]) >= n
          THEN /\ queue' = [queue EXCEPT ![g] = SubSeq(@, n + 1, Len(@))]
               /\ Return(w, Some(SubSeq(queue[g], 1, n)))
          ELSE /\ queue' = queue
               /\ Return(w, None)
    /\ queue_lock' = Free

\* -------------------------------------------------------- broadcast_to_room
\* one delivery: the message goes out to one player
Delivery(to, message) == [to |-> to, message |-> message]

\* broadcast_to_room: rooms.lock()
broadcast_to_room_call(w, room_id, message, exclude_player) ==
    /\ Ready(w)
    /\ rooms_lock = Free
    /\ rooms_lock' = w
    /\ call' = [call EXCEPT ![w] =
                  [op |-> "broadcast_to_room", room_id |-> room_id, message |-> message,
                   exclude_player |-> exclude_player, next |-> 1]]
    /\ pc' = [pc EXCEPT ![w] = "broadcast_locked"]
    /\ ret' = [ret EXCEPT ![w] = Pending]
    /\ UNCHANGED <<rooms, player_to_room, p2r_lock, uuid_count, sent>>

\* variant of broadcast_to_room_step that lets go of the rooms lock once it
\* has looked at the room, and sends to the players it finds without it
broadcast_to_room_step_unlocked(w) ==
    /\ pc[w] = "broadcast_locked"
    /\ LET room_id == call[w].room_id
           i == call[w].next
       IN IF room_id \in DOMAIN rooms /\ i <= Len(rooms[room_id].players)
          THEN LET player == rooms[room_id].players[i]
               IN /\ sent' = IF call[w].exclude_player = Some(player.player_id)
                             THEN sent
                             ELSE Append(sent, Delivery(player.player_id, call[w].message))
                  /\ call' = [call EXCEPT ![w].next = i + 1]
                  /\ pc' = pc
                  /\ ret' = ret
          ELSE /\ sent' = sent
               /\ Return(w, Ok)
    /\ rooms_lock' = IF rooms_lock = w THEN Free ELSE rooms_lock
    /\ UNCHANGED <<rooms, player_to_room, p2r_lock, uuid_count>>

\* broadcast_to_room: one turn of `for player in &room.players` under the
\* rooms lock; when the list is exhausted (or the room unknown) the guard drops
broadcast_to_room_step(w) ==
    /\ pc[w] = "broadcast_locked"
    /\ LET room_id == call[w].room_id
           i == call[w].next
       IN IF room_id \in DOMAIN rooms /\ i <= Len(rooms[room_id].players)
          THEN LET player == rooms[room_id].players[i]
               IN /\ sent' = IF call[w].exclude_player = Some(player.player_id)
                             THEN sent
                             ELSE Append(sent, Delivery(player.player_id, call[w].message))
                  /\ call' = [call EXCEPT ![w].next = i + 1]
                  /\ pc' = pc
                  /\ ret' = ret
                  /\ rooms_lock' = rooms_lock
          ELSE /\ sent' = sent
               /\ rooms_lock' = Free
               /\ Return(w, Ok)
    /\ UNCHANGED <<rooms, player_to_room, p2r_lock, uuid_count>>

\* ------------------------------------------------ queries of the registry
\* a Vec handed back to the caller
Vec(items) == [kind |-> "Vec", val |-> items]

ConnInit ==
    /\ connections = EmptyMap
    /\ connections_lock = Free

\* find_rooms: rooms.lock()
find_rooms_call(w, game_id) ==
    /\ Ready(w)
    /\ rooms_lock = Free
    /\ rooms_lock' = w
    /\ call' = [call EXCEPT ![w] = [op |-> "find_rooms", game_id |-> game_id]]
    /\ pc' = [pc EXCEPT ![w] = "find_rooms_locked"]
    /\ ret' = [ret EXCEPT ![w] = Pending]
    /\ UNCHANGED <<rooms, player_to_room, p2r_lock, uuid_count>>

\* variant of find_rooms_collect that lists full rooms too
find_rooms_collect_lists_full(w) ==
    /\ pc[w] = "find_rooms_locked"
    /\ Return(w, Vec({<<rooms[r].room_id, player_count(rooms[r]), rooms[r].max_players>> :
                        r \in {q \in DOMAIN rooms :
                                 /\ rooms[q].game_id = call[w].game_id
                                 /\ rooms[q].is_public}}))
    /\ rooms_lock' = Free
    /\ UNCHANGED <<rooms, player_to_room, p2r_lock, uuid_count>>

\* find_rooms: filter and map over rooms.values(); the order of the result
\* is the HashMap's, so the result is taken as the set of its entries
find_rooms_collect(w) ==
    /\ pc[w] = "find_rooms_locked"
    /\ Return(w, Vec({<<rooms[r].room_id, player_count(rooms[r]), rooms[r].max_players>> :
                        r \in {q \in DOMAIN rooms :
                                 /\ rooms[q].game_id = call[w].game_id
                                 /\ rooms[q].is_public
                                 /\ ~is_full(rooms[q])}}))
    /\ rooms_lock' = Free
    /\ UNCHANGED <<rooms, player_to_room, p2r_lock, uuid_count>>

\* get_room: rooms.lock()
get_room_call(w, room_id) ==
    /\ Ready(w)
    /\ rooms_lock = Free
    /\ rooms_lock' = w
    /\ call' = [call EXCEPT ![w] = [op |-> "get_room", room_id |-> room_id]]
    /\ pc' = [pc EXCEPT ![w] = "get_room_locked"]
    /\ ret' = [ret EXCEPT ![w] = Pending]
    /\ UNCHANGED <<rooms, player_to_room, p2r_lock, uuid_count>>

get_room_clone(w) ==
    /\ pc[w] = "get_room_locked"
    /\ Return(w, get_room(call[w].room_id))
    /\ rooms_lock' = Free
    /\ UNCHANGED <<rooms, player_to_room, p2r_lock, uuid_count>>

\* get_room_players: rooms.lock()
get_room_players_call(w, room_id) ==
    /\ Ready(w)
    /\ rooms_lock = Free
    /\ rooms_lock' = w
    /\ call' = [call EXCEPT ![w] = [op |-> "get_room_players", room_id |-> room_id]]
    /\ pc' = [pc EXCEPT ![w] = "get_players_locked"]
    /\ ret' = [ret EXCEPT ![w] = Pending]
    /\ UNCHANGED <<rooms, player_to_room, p2r_lock, uuid_count>>

get_room_players_clone(w) ==
    /\ pc[w] = "get_players_locked"
    /\ Return(w, Vec(get_room_players(call[w].room_id)))
    /\ rooms_lock' = Free
    /\ UNCHANGED <<rooms, player_to_room, p2r_lock, uuid_count>>

RECURSIVE SumPlayers(_)
SumPlayers(ids) ==
    IF ids = {} THEN 0
    ELSE LET r == CHOOSE q \in ids : TRUE
         IN player_count(rooms[r]) + SumPlayers(ids \ {r})

ServerStats ==
    [total_rooms |-> Cardinality(DOMAIN rooms),
     total_players |-> SumPlayers(DOMAIN rooms),
     active_connections |-> Cardinality(DOMAIN connections)]

\* get_stats: rooms.lock()
get_stats_call(w) ==
    /\ Ready(w)
    /\ rooms_lock = Free
    /\ rooms_lock' = w
    /\ call' = [call EXCEPT ![w] = [op |-> "get_stats"]]
    /\ pc' = [pc EXCEPT ![w] = "stats_rooms_locked"]
    /\ ret' = [ret EXCEPT ![w] = Pending]
    /\ UNCHANGED <<rooms, player_to_room, p2r_lock, uuid_count, conn_vars>>

\* get_stats: connections.lock(), with the rooms lock still held
get_stats_lock_connections(w) ==
    /\ pc[w] = "stats_rooms_locked"
    /\ connections_lock = Free
    /\ connections_lock' = w
    /\ Goto(w, "stats_both_locked")
    /\ UNCHANGED <<room_vars, connections>>

\* get_stats: the counts; both guards drop at the end of the function
get_stats_collect(w) ==
    /\ pc[w] = "stats_both_locked"
    /\ Return(w, ServerStats)
    /\ connections_lock' = Free
    /\ rooms_lock' = Free
    /\ UNCHANGED <<rooms, player_to_room, p2r_lock, uuid_count, connections>>

\* ---------------------------------------------------------- VoiceChatServer
VoiceInit ==
    /\ active_channels = EmptyMap
    /\ voice_lock = Free

\* join_voice_channel: active_channels.lock()
join_voice_channel_call(w, room_id, player_id) ==
    /\ Ready(w)
    /\ voice_lock = Free
    /\ voice_lock' = w
    /\ call' = [call EXCEPT ![w] =
                  [op |-> "join_voice_channel", room_id |-> room_id, player_id |-> player_id]]
    /\ pc' = [pc EXCEPT ![w] = "join_voice_locked"]
    /\ ret' = [ret EXCEPT ![w] = Pending]
    /\ UNCHANGED <<active_channels, sent>>

\* join_voice_channel: entry(room_id).or_insert_with(Vec::new).push(player_id)
join_voice_channel_push(w) ==
    /\ pc[w] = "join_voice_locked"
    /\ LET r == call[w].room_id
           players == IF r \in DOMAIN active_channels THEN active_channels[r] ELSE <<>>
       IN active_channels' = MapInsert(active_channels, r, Append(players, call[w].player_id))
    /\ voice_lock' = Free
    /\ Return(w, Ok)
    /\ sent' = sent

\* leave_voice_channel: active_channels.lock()
leave_voice_channel_call(w, room_id, player_id) ==
    /\ Ready(w)
    /\ voice_lock = Free
    /\ voice_lock' = w
    /\ call' = [call EXCEPT ![w] =
                  [op |-> "leave_voice_channel", room_id |-> room_id, player_id |-> player_id]]
    /\ pc' = [pc EXCEPT ![w] = "leave_voice_locked"]
    /\ ret' = [ret EXCEPT ![w] = Pending]
    /\ UNCHANGED <<active_channels, sent>>

\* variant of leave_voice_channel_retain that keeps the emptied channel
leave_voice_channel_keeps_empty(w) ==
    /\ pc[w] = "leave_voice_locked"
    /\ LET r == call[w].room_id
       IN active_channels' =
             IF r \in DOMAIN active_channels
             THEN [active_channels EXCEPT
                     ![r] = SelectSeq(@, LAMBDA p : p # call[w].player_id)]
             ELSE active_channels
    /\ voice_lock' = Free
    /\ Return(w, Ok)
    /\ sent' = sent

\* leave_voice_channel: players.retain(|p| p != player_id), and
\* channels.remove(room_id) when nobody is left
leave_voice_channel_retain(w) ==
    /\ pc[w] = "leave_voice_locked"
    /\ LET r == call[w].room_id
       IN active_channels' =
             IF r \in DOMAIN active_channels
             THEN LET players == SelectSeq(active_channels[r],
                                           LAMBDA p : p # call[w].player_id)
                  IN IF players = <<>>
                     THEN MapRemove(active_channels, r)
                     ELSE [active_channels EXCEPT ![r] = players]
             ELSE active_channels
    /\ voice_lock' = Free
    /\ Return(w, Ok)
    /\ sent' = sent

\* broadcast_audio: active_channels.lock()
broadcast_audio_call(w, room_id, sender_id, audio_data) ==
    /\ Ready(w)
    /\ voice_lock = Free
    /\ voice_lock' = w
    /\ call' = [call EXCEPT ![w] =
                  [op |-> "broadcast_audio", room_id |-> room_id, sender_id |-> sender_id,
                   audio_data |-> audio_data, next |-> 1]]
    /\ pc' = [pc EXCEPT ![w] = "audio_locked"]
    /\ ret' = [ret EXCEPT ![w] = Pending]
    /\ UNCHANGED <<active_channels, sent>>

\* broadcast_audio: one turn of `for player_id in players` under the lock
broadcast_audio_step(w) ==
    /\ pc[w] = "audio_locked"
    /\ LET r == call[w].room_id
           i == call[w].next
       IN IF r \in DOMAIN active_channels /\ i <= Len(active_channels[r])
          THEN LET player_id == active_channels[r][i]
               IN /\ sent' = IF player_id # call[w].sender_id
                             THEN Append(sent, Delivery(player_id, call[w].audio_data))
                             ELSE sent
                  /\ call' = [call EXCEPT ![w].next = i + 1]
                  /\ pc' = pc
                  /\ ret' = ret
                  /\ voice_lock' = voice_lock
          ELSE /\ sent' = sent
               /\ voice_lock' = Free
               /\ Return(w, Ok)
    /\ active_channels' = active_channels

\* the inputs of the three kinds of call that change membership or pose
CreateArgs == GameIds \X HostIds \X Capacities

JoinArgs == RoomIds \X Players \X JoinPoses

UpdateArgs == Players \X Poses

vars == <<room_vars, auth_vars, match_vars, voice_vars, conn_vars, sent, worker_vars, log>>

\* ---------------------------------------------------------------------
\* Spec: any number of worker threads call the registry concurrently.
Init ==
    /\ RoomInit
    /\ AuthInit
    /\ MatchInit
    /\ VoiceInit
    /\ ConnInit
    /\ sent = <<>>
    /\ log = <<>>

\* a step of the room registry touches neither the other services nor the log
Unlogged == UNCHANGED <<log, auth_vars, match_vars, voice_vars, conn_vars, sent>>

Logged(entries) ==
    log' = entries /\ UNCHANGED <<auth_vars, match_vars, voice_vars, conn_vars, sent>>

Next ==
    \E w \in Workers :
        \/ \E a \in CreateArgs : create_room_call(w, a[1], a[2], a[3]) /\ Unlogged
        \/ create_room_insert(w) /\ Unlogged
        \/ \E a \in JoinArgs : join_room_call(w, a[1], PlayerState(a[2], a[3])) /\ Unlogged
        \/ join_room_cs(w) /\ Unlogged
        \/ join_room_lock_p2r(w) /\ Unlogged
        \/ join_room_index(w) /\ Unlogged
        \/ \E p \in Players : leave_room_call(w, p) /\ Unlogged
        \/ leave_room_index(w) /\ Unlogged
        \/ leave_room_lock_rooms(w) /\ Unlogged
        \/ leave_room_cs(w) /\ Unlogged
        \/ \E a \in UpdateArgs : update_player_call(w, a[1], a[2]) /\ Unlogged
        \/ update_player_index(w) /\ Unlogged
        \/ update_player_lock_rooms(w) /\ Unlogged
        \/ update_player_cs(w) /\ Unlogged

Spec == Init /\ [][Next]_vars

\* ---------------------------------------------------------------------
\* SeqSpec: a single client thread; every behaviour is a sequence of
\* completed operations.  The observer keeps the last call: its arguments,
\* the rooms whose player list held the call's player when it began, the
\* value it returned, whether it changed the registry, and what the call
\* before it was.  While the call runs it also holds the registry as it was.
Client == CHOOSE w \in Workers : \A v \in Workers : w <= v

Registry == [rooms |-> rooms, player_to_room |-> player_to_room]

RoomsHolding(player_id) == {r \in DOMAIN rooms : player_id \in PlayerIds(rooms[r])}

Subject(c) ==
    IF c.op = "join_room" THEN c.player.player_id
    ELSE IF c.op \in {"leave_room", "update_player"} THEN c.player_id
    ELSE 0

Opened(w) ==
    <<[call |-> call'[w], held_in |-> RoomsHolding(Subject(call'[w])),
       before |-> Registry, ret |-> Pending, changed |-> FALSE,
       prev |-> IF log = <<>> THEN [op |-> "none", subject |-> 0, ret |-> Pending]
                ELSE [op |-> log[1].call.op, subject |-> Subject(log[1].call),
                      ret |-> log[1].ret]]>>

Observed(w) ==
    IF pc'[w] = "done"
    THEN <<[log[1] EXCEPT !.ret = ret'[w],
                          !.changed = (log[1].before #
                                         [rooms |-> rooms', player_to_room |-> player_to_room']),
                          !.before = <<>>]>>
    ELSE log

SeqNext ==
    \E w \in {Client} :
        \/ \E a \in CreateArgs : create_room_call(w, a[1], a[2], a[3]) /\ Logged(Opened(w))
        \/ create_room_insert(w) /\ Logged(Observed(w))
        \/ \E a \in JoinArgs : join_room_call(w, a[1], PlayerState(a[2], a[3])) /\ Logged(Opened(w))
        \/ join_room_cs(w) /\ Logged(Observed(w))
        \/ join_room_lock_p2r(w) /\ Logged(Observed(w))
        \/ join_room_index(w) /\ Logged(Observed(w))
        \/ \E p \in Players : leave_room_call(w, p) /\ Logged(Opened(w))
        \/ leave_room_index(w) /\ Logged(Observed(w))
        \/ leave_room_lock_rooms(w) /\ Logged(Observed(w))
        \/ leave_room_cs(w) /\ Logged(Observed(w))
        \/ \E a \in UpdateArgs : update_player_call(w, a[1], a[2]) /\ Logged(Opened(w))
        \/ update_player_index(w) /\ Logged(Observed(w))
        \/ update_player_lock_rooms(w) /\ Logged(Observed(w))
        \/ update_player_cs(w) /\ Logged(Observed(w))

SeqSpec == Init /\ [][SeqNext]_vars

\* ---------------------------------------------------------------------
\* JoinRaceSpec (scenario S3): one room is created, then every player calls
\* join_room on it at most once, the calls running concurrently on the
\* worker threads.  The observer logs each call and the value it returned.
\* the room the scenario creates first
RaceRoom == CHOOSE r \in RoomIds : \A q \in RoomIds : r <= q

Attempted == {log[i].player_id : i \in 1..Len(log)}

Started(w, player_id) == Append(log, [player_id |-> player_id, caller |-> w, ret |-> Pending])

Finished(w) ==
    IF pc'[w] = "done"
    THEN [i \in 1..Len(log) |->
            IF log[i].caller = w /\ log[i].ret = Pending
            THEN [log[i] EXCEPT !.ret = ret'[w]] ELSE log[i]]
    ELSE log

JoinRaceNext ==
    \E w \in Workers :
        \/ \E a \in CreateArgs :
              uuid_count = 0 /\ create_room_call(w, a[1], a[2], a[3]) /\ Unlogged
        \/ create_room_insert(w) /\ Unlogged
        \/ \E p \in Players, t \in JoinPoses :
              /\ RaceRoom \in DOMAIN rooms
              /\ p \notin Attempted
              /\ join_room_call(w, RaceRoom, PlayerState(p, t))
              /\ Logged(Started(w, p))
        \/ join_room_cs(w) /\ Logged(Finished(w))
        \/ join_room_lock_p2r(w) /\ Logged(Finished(w))
        \/ join_room_index(w) /\ Logged(Finished(w))

JoinRaceSpec == Init /\ [][JoinRaceNext]_vars

\* ---------------------------------------------------------------------
\* The account service under concurrent callers.
\* ---------------------------------------------------------------------
AuthOnly == UNCHANGED <<room_vars, match_vars, voice_vars, conn_vars, sent, log>>

\* signups with one valid username and one valid password; a login may also
\* offer the password nobody signed up with
AuthSignups ==
    {request \in SignupRequests :
        /\ request.username \in {<<"a", "l">>, <<"a", "l", "i", "c", "e">>}
        /\ request.password \in {<<"p", "w">>, <<"p", "a", "s", "s", "w", "o", "r", "d">>}}

AuthNext ==
    \E w \in Workers :
        \/ \E request \in AuthSignups : signup_call(w, request) /\ AuthOnly
        \/ signup_check_lock(w) /\ AuthOnly
        \/ signup_check(w) /\ AuthOnly
        \/ \E hashed \in BOOLEAN : signup_hash(w, hashed) /\ AuthOnly
        \/ signup_users_lock(w) /\ AuthOnly
        \/ signup_users_insert(w) /\ AuthOnly
        \/ signup_email_lock(w) /\ AuthOnly
        \/ signup_email_insert(w) /\ AuthOnly
        \/ \E request \in LoginRequests : login_call(w, request) /\ AuthOnly
        \/ login_find_id(w) /\ AuthOnly
        \/ login_users_lock(w) /\ AuthOnly
        \/ login_get_user(w) /\ AuthOnly
        \/ \E id \in UserIds, avatar_url \in Avatars :
              update_user_call(w, id, avatar_url) /\ AuthOnly
        \/ update_user_cs(w) /\ AuthOnly

AuthSpec == Init /\ [][AuthNext]_vars

\* ---------------------------------------------------------------------
\* Every worker signs up once, with valid input and the same email; the
\* password hashing succeeds.
\* ---------------------------------------------------------------------
RaceEmail == <<"a", "@", "x">>

ValidSignups ==
    {request \in SignupRequests :
        /\ Len(request.username) >= MinUsernameLen
        /\ Len(request.password) >= MinPasswordLen
        /\ request.email = RaceEmail}

SignupRaceNext ==
    \E w \in Workers :
        \/ \E request \in ValidSignups :
              pc[w] = "idle" /\ signup_call(w, request) /\ AuthOnly
        \/ signup_check_lock(w) /\ AuthOnly
        \/ signup_check(w) /\ AuthOnly
        \/ signup_hash(w, TRUE) /\ AuthOnly
        \/ signup_users_lock(w) /\ AuthOnly
        \/ signup_users_insert(w) /\ AuthOnly
        \/ signup_email_lock(w) /\ AuthOnly
        \/ signup_email_insert(w) /\ AuthOnly

SignupRaceSpec == Init /\ [][SignupRaceNext]_vars

\* ---------------------------------------------------------------------
\* Distinct players are queued for one game; then, with nobody joining or
\* leaving the queue, find_match is called for that game with one cohort
\* size n >= 1.  The log keeps, per find_match call, the caller, n, the
\* queue length L at the first call and the value returned.
\* ---------------------------------------------------------------------
RaceGame == "g"

Waiting == IF RaceGame \in DOMAIN queue THEN queue[RaceGame] ELSE <<>>

Enqueuing == {w \in Workers : pc[w] = "join_queue_locked"}

Asked(w, n) ==
    Append(log, [caller |-> w, n |-> n,
                 L |-> IF log = <<>> THEN Len(Waiting) ELSE log[1].L,
                 ret |-> Pending])

Answered(w) ==
    [i \in 1..Len(log) |->
        IF log[i].caller = w /\ log[i].ret = Pending
        THEN [log[i] EXCEPT !.ret = ret'[w]]
        ELSE log[i]]

MatchOnly == UNCHANGED <<room_vars, auth_vars, voice_vars, conn_vars, sent>>

MatchRaceNext ==
    \E w \in Workers :
        \/ \E p \in QueuePlayers :
              /\ log = <<>>
              /\ \A i \in 1..Len(Waiting) : Waiting[i] # p
              /\ \A v \in Enqueuing : call[v].player_id # p
              /\ join_queue_call(w, RaceGame, p)
              /\ MatchOnly /\ UNCHANGED log
        \/ join_queue_push(w) /\ MatchOnly /\ UNCHANGED log
        \/ \E n \in 1..MaxRequired :
              /\ Enqueuing = {}
              /\ Len(log) < MaxMatchCalls
              /\ log # <<>> => n = log[1].n
              /\ find_match_call(w, RaceGame, n)
              /\ log' = Asked(w, n)
              /\ MatchOnly
        \/ find_match_drain(w) /\ log' = Answered(w) /\ MatchOnly

MatchRaceSpec == Init /\ [][MatchRaceNext]_vars

\* ---------------------------------------------------------------------
\* The matchmaking queue under concurrent callers: any worker may join or
\* leave the queue of any game and ask for a match of any size.
\* ---------------------------------------------------------------------
TotalWaiting == Len(IF "g" \in DOMAIN queue THEN queue["g"] ELSE <<>>)
                + Len(IF "h" \in DOMAIN queue THEN queue["h"] ELSE <<>>)

MatchNext ==
    \E w \in Workers :
        \/ \E g \in QueueGames, p \in QueuePlayers :
              /\ TotalWaiting + Cardinality(Enqueuing) < MaxWaiting
              /\ join_queue_call(w, g, p)
              /\ MatchOnly /\ UNCHANGED log
        \/ join_queue_push(w) /\ MatchOnly /\ UNCHANGED log
        \/ \E g \in QueueGames, p \in QueuePlayers :
              leave_queue_call(w, g, p) /\ MatchOnly /\ UNCHANGED log
        \/ leave_queue_retain(w) /\ MatchOnly /\ UNCHANGED log
        \/ \E g \in QueueGames, n \in 0..MaxRequired :
              find_match_call(w, g, n) /\ MatchOnly /\ UNCHANGED log
        \/ find_match_drain(w) /\ MatchOnly /\ UNCHANGED log

MatchSpec == Init /\ [][MatchNext]_vars

\* ---------------------------------------------------------------------
\* Broadcasts to one room, whose membership changes by concurrent joins and
\* leaves, and to a room id that names no room.  Each broadcast carries a message of its own (its number in the
\* order in which the broadcasts took the rooms lock); the log keeps, per
\* broadcast, whom the room held at that moment.
\* ---------------------------------------------------------------------
RoomsOnly == UNCHANGED <<auth_vars, match_vars, voice_vars, conn_vars>>

Excludes == {None} \cup {Some(p) : p \in Players}

Announced(w, room_id, exclude_player) ==
    Append(log, [message |-> Len(log) + 1, caller |-> w, room_id |-> room_id,
                 exclude_player |-> exclude_player,
                 members |-> IF room_id \in DOMAIN rooms
                             THEN PlayerIds(rooms[room_id]) ELSE {},
                 done |-> FALSE])

FannedOut(w) ==
    [i \in 1..Len(log) |->
        IF log[i].caller = w /\ ~log[i].done /\ pc'[w] = "done"
        THEN [log[i] EXCEPT !.done = TRUE]
        ELSE log[i]]

BroadcastNext ==
    \E w \in Workers :
        \/ \E a \in CreateArgs :
              uuid_count = 0 /\ create_room_call(w, a[1], a[2], a[3]) /\ Unlogged
        \/ create_room_insert(w) /\ Unlogged
        \/ \E a \in JoinArgs : join_room_call(w, a[1], PlayerState(a[2], a[3])) /\ Unlogged
        \/ join_room_cs(w) /\ Unlogged
        \/ join_room_lock_p2r(w) /\ Unlogged
        \/ join_room_index(w) /\ Unlogged
        \/ \E p \in Players : leave_room_call(w, p) /\ Unlogged
        \/ leave_room_index(w) /\ Unlogged
        \/ leave_room_lock_rooms(w) /\ Unlogged
        \/ leave_room_cs(w) /\ Unlogged
        \/ \E r \in RoomIds, x \in Excludes :
              /\ Len(log) < MaxBroadcasts
              /\ broadcast_to_room_call(w, r, Len(log) + 1, x)
              /\ log' = Announced(w, r, x)
              /\ RoomsOnly
        \/ broadcast_to_room_step(w) /\ log' = FannedOut(w) /\ RoomsOnly

BroadcastSpec == Init /\ [][BroadcastNext]_vars

\* ---------------------------------------------------------------------
\* The voice overlay under concurrent callers.  Each audio broadcast
\* carries a frame of its own; the log keeps, per broadcast, who was
\* enrolled in the room when it took the lock.
\* ---------------------------------------------------------------------
VoiceOnly == UNCHANGED <<room_vars, auth_vars, match_vars, conn_vars>>

Enrolled(room_id) ==
    IF room_id \in DOMAIN active_channels
    THEN {active_channels[room_id][k] : k \in 1..Len(active_channels[room_id])}
    ELSE {}

TotalEnrolled ==
    Cardinality({<<r, k>> \in RoomIds \X (1..MaxEnrolled) :
                    r \in DOMAIN active_channels /\ k <= Len(active_channels[r])})

Enrolling == {w \in Workers : pc[w] = "join_voice_locked"}

Spoken(w, room_id, sender_id) ==
    Append(log, [message |-> Len(log) + 1, caller |-> w, room_id |-> room_id,
                 sender_id |-> sender_id, members |-> Enrolled(room_id),
                 done |-> FALSE])

VoiceNext ==
    \E w \in Workers :
        \/ \E r \in RoomIds, p \in Players :
              /\ TotalEnrolled + Cardinality(Enrolling) < MaxEnrolled
              /\ join_voice_channel_call(w, r, p)
              /\ VoiceOnly /\ UNCHANGED log
        \/ join_voice_channel_push(w) /\ VoiceOnly /\ UNCHANGED log
        \/ \E r \in RoomIds, p \in Players :
              leave_voice_channel_call(w, r, p) /\ VoiceOnly /\ UNCHANGED log
        \/ leave_voice_channel_retain(w) /\ VoiceOnly /\ UNCHANGED log
        \/ \E r \in RoomIds, p \in Players :
              /\ Len(log) < MaxBroadcasts
              /\ broadcast_audio_call(w, r, p, Len(log) + 1)
              /\ log' = Spoken(w, r, p)
              /\ VoiceOnly
        \/ broadcast_audio_step(w) /\ log' = FannedOut(w) /\ VoiceOnly

VoiceSpec == Init /\ [][VoiceNext]_vars

\* ---------------------------------------------------------------------
\* Logins against a store that concurrent signups fill.  The log keeps,
\* per login, the credentials offered and whether the email was
\* registered when the login took the email lock.
\* ---------------------------------------------------------------------
AuthLogged == UNCHANGED <<room_vars, match_vars, voice_vars, conn_vars, sent>>

Offered(w, request) ==
    Append(log, [caller |-> w, request |-> request,
                 known |-> request.email \in DOMAIN email_to_id,
                 ret |-> Pending])

\* the signups that fill the store: valid input, any of the two emails
StoreSignups ==
    {request \in AuthSignups :
        /\ Len(request.username) >= MinUsernameLen
        /\ Contains(request.email, "@")
        /\ Len(request.password) >= MinPasswordLen}

LoginNext ==
    \E w \in Workers :
        \/ \E request \in StoreSignups : signup_call(w, request) /\ AuthOnly
        \/ signup_check_lock(w) /\ AuthOnly
        \/ signup_check(w) /\ AuthOnly
        \/ \E hashed \in BOOLEAN : signup_hash(w, hashed) /\ AuthOnly
        \/ signup_users_lock(w) /\ AuthOnly
        \/ signup_users_insert(w) /\ AuthOnly
        \/ signup_email_lock(w) /\ AuthOnly
        \/ signup_email_insert(w) /\ AuthOnly
        \/ \E request \in LoginRequests :
              /\ Len(log) < MaxLogins
              /\ login_call(w, request)
              /\ log' = Offered(w, request)
              /\ AuthLogged
        \/ login_find_id(w) /\ log' = Answered(w) /\ AuthLogged
        \/ login_users_lock(w) /\ AuthOnly
        \/ login_get_user(w) /\ log' = Answered(w) /\ AuthLogged

LoginSpec == Init /\ [][LoginNext]_vars

\* ---------------------------------------------------------------------
\* Tokens: signups and logins issue tokens while the clock moves through
\* the instants around the expiry of a token issued at the start; any
\* token issued so far may be presented to verify_token.  The log keeps
\* the tokens issued, with the credentials they were issued for.
\* ---------------------------------------------------------------------
Instants == {TokenLifetime - 1, TokenLifetime, TokenLifetime + 1,
             TokenLifetime + 60, TokenLifetime + 61}

Issued(w, by) ==
    IF pc'[w] = "done" /\ ret'[w].success
    THEN Append(log, [token |-> ret'[w].token.val, by |-> by,
                      email |-> call[w].request.email,
                      password |-> call[w].request.password])
    ELSE log

TokenNext ==
    \/ \E w \in Workers :
        \/ \E request \in StoreSignups :
              Len(log) < MaxTokens /\ signup_call(w, request) /\ AuthOnly
        \/ signup_check_lock(w) /\ AuthOnly
        \/ signup_check(w) /\ AuthOnly
        \/ signup_hash(w, TRUE) /\ AuthOnly
        \/ signup_users_lock(w) /\ AuthOnly
        \/ signup_users_insert(w) /\ AuthOnly
        \/ signup_email_lock(w) /\ AuthOnly
        \/ signup_email_insert(w) /\ log' = Issued(w, "signup") /\ AuthLogged
        \/ \E request \in LoginRequests :
              Len(log) < MaxTokens /\ login_call(w, request) /\ AuthOnly
        \/ login_find_id(w) /\ AuthOnly
        \/ login_users_lock(w) /\ AuthOnly
        \/ login_get_user(w) /\ log' = Issued(w, "login") /\ AuthLogged
        \/ \E i \in 1..Len(log), leeway \in Leeways :
              verify_token_call(w, log[i].token, leeway) /\ AuthOnly
    \/ \E instant \in Instants : tick(instant) /\ AuthOnly

TokenSpec == Init /\ [][TokenNext]_vars

\* ---------------------------------------------------------------------
\* Listing rooms: rooms of two games are created, joined and left while
\* find_rooms is called for either game.
\* ---------------------------------------------------------------------
ListedGames == {"g", "h"}

FindNext ==
    \E w \in Workers :
        \/ \E g \in ListedGames, h \in HostIds, c \in Capacities :
              create_room_call(w, g, h, c) /\ Unlogged
        \/ create_room_insert(w) /\ Unlogged
        \/ \E a \in JoinArgs : join_room_call(w, a[1], PlayerState(a[2], a[3])) /\ Unlogged
        \/ join_room_cs(w) /\ Unlogged
        \/ join_room_lock_p2r(w) /\ Unlogged
        \/ join_room_index(w) /\ Unlogged
        \/ \E p \in Players : leave_room_call(w, p) /\ Unlogged
        \/ leave_room_index(w) /\ Unlogged
        \/ leave_room_lock_rooms(w) /\ Unlogged
        \/ leave_room_cs(w) /\ Unlogged
        \/ \E g \in ListedGames : find_rooms_call(w, g) /\ Unlogged
        \/ find_rooms_collect(w) /\ Unlogged

FindSpec == Init /\ [][FindNext]_vars

\* ---------------------------------------------------------------------
\* The matchmaking queue as in MatchSpec, with the log keeping the latest
\* leave_queue: what it asked for and the queue it found.
\* ---------------------------------------------------------------------
Fifo(game_id) == IF game_id \in DOMAIN queue THEN queue[game_id] ELSE <<>>

Leaving(w, game_id, player_id) ==
    <<[caller |-> w, game_id |-> game_id, player_id |-> player_id,
       before |-> Fifo(game_id), done |-> FALSE]>>

Left(w) ==
    IF log # <<>> /\ log[1].caller = w
    THEN <<[log[1] EXCEPT !.done = TRUE]>>
    ELSE log

NumLeavers == 2
Leavers == 1..NumLeavers

QueueNext ==
    \E w \in Workers :
        \/ \E g \in QueueGames, p \in Leavers :
              /\ TotalWaiting + Cardinality(Enqueuing) < MaxWaiting
              /\ join_queue_call(w, g, p)
              /\ MatchOnly /\ UNCHANGED log
        \/ join_queue_push(w) /\ MatchOnly /\ UNCHANGED log
        \/ \E g \in QueueGames, p \in Leavers :
              /\ \A v \in Workers : pc[v] # "leave_queue_locked"
              /\ leave_queue_call(w, g, p)
              /\ log' = Leaving(w, g, p)
              /\ MatchOnly
        \/ leave_queue_retain(w) /\ log' = Left(w) /\ MatchOnly
        \/ \E g \in QueueGames :
              find_match_call(w, g, NumLeavers) /\ MatchOnly /\ UNCHANGED log
        \/ find_match_drain(w) /\ MatchOnly /\ UNCHANGED log

QueueSpec == Init /\ [][QueueNext]_vars

\* ---------------------------------------------------------------------
\* Every registry operation under a fair scheduler.  The log counts the
\* calls begun, so that a behaviour begins at most MaxCalls of them; a
\* worker with a call in flight takes its next step whenever that step is
\* possible again and again.
\* ---------------------------------------------------------------------
MaxCalls == 4

Begun(w) == Append(log, w)

RegistryOnly == UNCHANGED <<auth_vars, match_vars, voice_vars>>

InFlight(w) == pc[w] \notin {"idle", "done"}

Begin(w) ==
    /\ Len(log) < MaxCalls
    /\ log' = Begun(w)
    /\ RegistryOnly

Proceed(w) ==
    /\ \/ create_room_insert(w) /\ UNCHANGED <<conn_vars, sent>>
       \/ join_room_cs(w) /\ UNCHANGED <<conn_vars, sent>>
       \/ join_room_lock_p2r(w) /\ UNCHANGED <<conn_vars, sent>>
       \/ join_room_index(w) /\ UNCHANGED <<conn_vars, sent>>
       \/ leave_room_index(w) /\ UNCHANGED <<conn_vars, sent>>
       \/ leave_room_lock_rooms(w) /\ UNCHANGED <<conn_vars, sent>>
       \/ leave_room_cs(w) /\ UNCHANGED <<conn_vars, sent>>
       \/ update_player_index(w) /\ UNCHANGED <<conn_vars, sent>>
       \/ update_player_lock_rooms(w) /\ UNCHANGED <<conn_vars, sent>>
       \/ update_player_cs(w) /\ UNCHANGED <<conn_vars, sent>>
       \/ get_room_clone(w) /\ UNCHANGED <<conn_vars, sent>>
       \/ get_room_players_clone(w) /\ UNCHANGED <<conn_vars, sent>>
       \/ find_rooms_collect(w) /\ UNCHANGED <<conn_vars, sent>>
       \/ broadcast_to_room_step(w) /\ UNCHANGED conn_vars
       \/ get_stats_lock_connections(w) /\ UNCHANGED sent
       \/ get_stats_collect(w) /\ UNCHANGED sent
    /\ UNCHANGED log
    /\ RegistryOnly

LiveNext ==
    \E w \in Workers :
        \/ \E a \in CreateArgs :
              Begin(w) /\ create_room_call(w, a[1], a[2], a[3]) /\ UNCHANGED <<conn_vars, sent>>
        \/ \E a \in JoinArgs :
              Begin(w) /\ join_room_call(w, a[1], PlayerState(a[2], a[3]))
                       /\ UNCHANGED <<conn_vars, sent>>
        \/ \E p \in Players :
              Begin(w) /\ leave_room_call(w, p) /\ UNCHANGED <<conn_vars, sent>>
        \/ \E a \in UpdateArgs :
              Begin(w) /\ update_player_call(w, a[1], a[2]) /\ UNCHANGED <<conn_vars, sent>>
        \/ \E r \in RoomIds :
              Begin(w) /\ get_room_call(w, r) /\ UNCHANGED <<conn_vars, sent>>
        \/ \E r \in RoomIds :
              Begin(w) /\ get_room_players_call(w, r) /\ UNCHANGED <<conn_vars, sent>>
        \/ \E g \in GameIds :
              Begin(w) /\ find_rooms_call(w, g) /\ UNCHANGED <<conn_vars, sent>>
        \/ \E r \in RoomIds, x \in Excludes :
              Begin(w) /\ broadcast_to_room_call(w, r, Len(log) + 1, x) /\ UNCHANGED conn_vars
        \/ Begin(w) /\ get_stats_call(w) /\ UNCHANGED sent
        \/ Proceed(w)

Fairness == \A w \in Workers : SF_vars(Proceed(w))

LiveSpec == Init /\ [][LiveNext]_vars /\ Fairness

\* ---------------------------------------------------------------------
\* The matchmaking queue with a tally of what its callers saw: per game
\* and player, how many times a join_queue pushed the player, how many
\* times a find_match returned the player, and how many entries of the
\* player a leave_queue found when it took the lock.
\* ---------------------------------------------------------------------
MaxJoins == 3

Occurrences(players, player_id) ==
    Cardinality({k \in 1..Len(players) : players[k] = player_id})

Slots == QueueGames \X Leavers

NoTally == [joined |-> [s \in Slots |-> 0],
            matched |-> [s \in Slots |-> 0],
            left |-> [s \in Slots |-> 0]]

Tally == IF log = <<>> THEN NoTally ELSE log[1]

RECURSIVE TallySum(_, _)
TallySum(count, slots) ==
    IF slots = {} THEN 0
    ELSE LET s == CHOOSE s \in slots : TRUE
         IN count[s] + TallySum(count, slots \ {s})

TotalJoined == TallySum(Tally.joined, Slots)

Joined(w) ==
    <<[Tally EXCEPT !.joined[<<call[w].game_id, call[w].player_id>>] = @ + 1]>>

Matched(w) ==
    IF ret'[w].kind = "Some"
    THEN <<[Tally EXCEPT !.matched =
               [s \in Slots |->
                   IF s[1] = call[w].game_id
                   THEN @[s] + Occurrences(ret'[w].val, s[2])
                   ELSE @[s]]]>>
    ELSE log

Removed(w) ==
    <<[Tally EXCEPT !.left[<<call[w].game_id, call[w].player_id>>] =
          @ + Occurrences(Fifo(call[w].game_id), call[w].player_id)]>>

ConserveNext ==
    \E w \in Workers :
        \/ \E g \in QueueGames, p \in Leavers :
              /\ TotalJoined + Cardinality(Enqueuing) < MaxJoins
              /\ join_queue_call(w, g, p)
              /\ MatchOnly /\ UNCHANGED log
        \/ join_queue_push(w) /\ log' = Joined(w) /\ MatchOnly
        \/ \E g \in QueueGames, p \in Leavers :
              leave_queue_call(w, g, p) /\ MatchOnly /\ UNCHANGED log
        \/ leave_queue_retain(w) /\ log' = Removed(w) /\ MatchOnly
        \/ \E g \in QueueGames, n \in 1..NumLeavers :
              find_match_call(w, g, n) /\ MatchOnly /\ UNCHANGED log
        \/ find_match_drain(w) /\ log' = Matched(w) /\ MatchOnly

ConserveSpec == Init /\ [][ConserveNext]_vars

\* =====================================================================
\* Claims about the room registry
\* =====================================================================
Quiescent == \A w \in Workers : Ready(w)

Min(a, b) == IF a <= b THEN a ELSE b

\* C1: after any sequence of completed room operations, every player in a
\* room's player list is mapped to that room by player_to_room, and no
\* player id is in the player lists of two rooms.  (SeqSpec)
C1_IndexMatchesRooms ==
    Quiescent =>
        /\ \A r \in DOMAIN rooms : \A p \in PlayerIds(rooms[r]) :
              p \in DOMAIN player_to_room /\ player_to_room[p] = r
        /\ \A r1, r2 \in DOMAIN rooms :
              r1 # r2 => PlayerIds(rooms[r1]) \cap PlayerIds(rooms[r2]) = {}

\* C2: whenever both registry locks are free, so that another worker can
\* acquire them, the rooms map and the reverse index agree: a player is in a
\* room's list if and only if player_to_room maps the player to that room.
\* (Spec)
C2_NoHalfUpdatedState ==
    (rooms_lock = Free /\ p2r_lock = Free) =>
        \A p \in Players, r \in RoomIds :
            (r \in DOMAIN rooms /\ p \in PlayerIds(rooms[r]))
                <=> (p \in DOMAIN player_to_room /\ player_to_room[p] = r)

\* C3: join_room for a player who is already in the player list of this or
\* of another room fails with AlreadyInRoom and changes neither the rooms
\* nor the reverse index.  (SeqSpec)
C3_JoinOfMemberRejected ==
    \A i \in 1..Len(log) :
        (log[i].call.op = "join_room" /\ log[i].ret # Pending /\ log[i].held_in # {})
            => (log[i].ret = Err("AlreadyInRoom") /\ ~log[i].changed)

\* C4: in every reachable state, under any interleaving of concurrent
\* create_room, join_room and leave_room calls, no room holds more players
\* than its capacity.  (Spec)
C4_CapacityRespected ==
    \A r \in DOMAIN rooms : Len(rooms[r].players) <= rooms[r].max_players

\* C4 witness: a room of capacity >= 1 is full, one join_room was turned away
\* with "Room is full" while another worker's join_room into a room is
\* between its two critical sections.
C4_FullRoomTurnsJoinAway ==
    \E r \in DOMAIN rooms, w1, w2 \in Workers :
        /\ rooms[r].max_players >= 1
        /\ Len(rooms[r].players) = rooms[r].max_players
        /\ pc[w1] = "done" /\ call[w1].op = "join_room" /\ ret[w1] = Err("Room is full")
        /\ pc[w2] = "join_wait_p2r" /\ call[w2].room_id = r

\* C5: when m distinct players, none in any room, concurrently call
\* join_room on one existing empty room of capacity c, exactly min(m, c)
\* calls return Ok and the other m - min(m, c) return "Room is full",
\* whatever the interleaving; afterwards get_room_players holds exactly the
\* players whose join succeeded, once each.  With m <= c every join
\* succeeds.  (JoinRaceSpec)
C5_ExactlyCapacityJoinsSucceed ==
    (Quiescent /\ RaceRoom \in DOMAIN rooms) =>
        LET m == Len(log)
            c == rooms[RaceRoom].max_players
            ok == {i \in 1..m : log[i].ret = Ok}
            full == {i \in 1..m : log[i].ret = Err("Room is full")}
        IN /\ Cardinality(ok) = Min(m, c)
           /\ Cardinality(full) = m - Min(m, c)
           /\ PlayerIds(rooms[RaceRoom]) = {log[i].player_id : i \in ok}
           /\ Len(get_room_players(RaceRoom)) = Cardinality(ok)

\* C5 witness: more players than capacity raced for a room of capacity >= 1
\* and at least one was turned away.
C5_MoreJoinersThanCapacity ==
    /\ Quiescent
    /\ RaceRoom \in DOMAIN rooms
    /\ rooms[RaceRoom].max_players >= 1
    /\ Len(log) > rooms[RaceRoom].max_players
    /\ \E i \in 1..Len(log) : log[i].ret = Err("Room is full")
    /\ \E i \in 1..Len(log) : log[i].ret = Ok

\* C6: whenever leave_room removes the last player of a room, the room is
\* absent from the registry when the call returns (get_room is None), and
\* removal and deletion are one critical section: no step leaves a room that
\* had players in the registry with an empty player list, so no join_room
\* can add a player in between.  (Spec)
C6_LastLeaveDeletesRoom ==
    [][/\ \A w \in Workers, r \in RoomIds :
            (/\ pc[w] = "leave_rooms_locked"
             /\ pc'[w] = "done"
             /\ call[w].room_id = r
             /\ r \in DOMAIN rooms
             /\ PlayerIds(rooms[r]) = {call[w].player_id})
                => /\ r \notin DOMAIN rooms'
                   /\ get_room(r)' = None
                   /\ ret'[w] = Some(r)
       /\ \A r \in DOMAIN rooms :
            (Len(rooms[r].players) > 0 /\ r \in DOMAIN rooms')
                => Len(rooms'[r].players) > 0]_vars

\* C6 witness: a leave_room has returned Some(r) and room r, which was
\* created earlier, is no longer in the registry.
C6_RoomGoneAfterLastLeave ==
    \E w \in Workers :
        /\ pc[w] = "done"
        /\ call[w].op = "leave_room"
        /\ ret[w].kind = "Some"
        /\ ret[w].val \notin DOMAIN rooms
        /\ get_room(ret[w].val) = None

\* C7: leave_room is idempotent: for a player in a room's list the call
\* returns Some(r) with r a room that held the player; a leave_room of the
\* same player directly after a leave_room returns None and changes neither
\* the rooms nor the reverse index; for a player in no room it returns None.
\* (SeqSpec)
C7_DoubleLeaveIdempotent ==
    \A i \in 1..Len(log) :
        (log[i].call.op = "leave_room" /\ log[i].ret # Pending) =>
            /\ (/\ log[i].held_in # {}
                /\ ~(log[i].prev.op = "leave_room" /\ log[i].prev.subject = log[i].call.player_id))
                  => (log[i].ret.kind = "Some" /\ log[i].ret.val \in log[i].held_in)
            /\ log[i].held_in = {} => log[i].ret = None
            /\ (log[i].prev.op = "leave_room" /\ log[i].prev.subject = log[i].call.player_id)
                  => (log[i].ret = None /\ ~log[i].changed)

\* =====================================================================
\* Claims about the account service
\* =====================================================================
Succeeded == {w \in Workers : pc[w] = "done" /\ ret[w].success}

\* C8: when two or more signup calls with valid inputs and the same email
\* run concurrently, exactly one returns success and every other one
\* returns the failure "Email already registered".
C8_OneSignupPerEmailWins ==
    (\A w \in Workers : pc[w] = "done") =>
        /\ Cardinality(Succeeded) = 1
        /\ \A w \in Workers \ Succeeded : ret[w].message = "Email already registered"

\* C9: after any sequence of signup, login and profile-mutation calls,
\* concurrent signups included, every stored profile P has
\* email_to_id[P.email] = P.id, and no two profiles share an email.
C9_EmailIndexMatchesProfiles ==
    Quiescent =>
        /\ \A id \in DOMAIN users :
              /\ users[id].email \in DOMAIN email_to_id
              /\ email_to_id[users[id].email] = id
        /\ \A id \in DOMAIN users, other \in DOMAIN users :
              id # other => users[id].email # users[other].email

\* =====================================================================
\* Claims about matchmaking
\* =====================================================================
Cohorts == {i \in 1..Len(log) : log[i].ret.kind = "Some"}

Members(i) == {log[i].ret.val[k] : k \in 1..Len(log[i].ret.val)}

\* C10: find_match(g, n) with n >= 1, called K times against a queue of L
\* distinct players with nobody joining or leaving meanwhile, returns
\* min(K, L div n) cohorts in total; each cohort holds exactly n players
\* and no player is in more than one cohort.
C10_CohortsExactAndDisjoint ==
    (Quiescent /\ log # <<>>) =>
        /\ Cardinality(Cohorts) = Min(Len(log), log[1].L \div log[1].n)
        /\ \A i \in Cohorts :
              /\ Len(log[i].ret.val) = log[i].n
              /\ Cardinality(Members(i)) = log[i].n
        /\ \A i \in Cohorts, j \in Cohorts : i # j => Members(i) \cap Members(j) = {}

\* C10 witness: more calls than the queue had cohorts for: at least two
\* calls got a cohort and at least one got nothing.
C10_MoreCallsThanCohorts ==
    /\ Quiescent
    /\ Cardinality(Cohorts) >= 2
    /\ \E i \in 1..Len(log) : log[i].ret.kind = "None"
    /\ log[1].n >= 2

\* C11: find_match(g, n): if the queue of g holds at least n entries, the
\* call removes exactly the first n, returns them in the order they were
\* queued and leaves the rest in their order; otherwise it returns None and
\* leaves the queue as it was.  The queues of other games never change.
C11_FindMatchTakesFirstN ==
    [][\A w \in Workers, g \in QueueGames :
          (pc[w] = "find_match_locked" /\ pc'[w] = "done" /\ call[w].game_id = g) =>
             /\ IF g \in DOMAIN queue /\ Len(queue[g]) >= call[w].required_players
                THEN /\ ret'[w].kind = "Some"
                     /\ ret'[w].val \o queue'[g] = queue[g]
                     /\ Len(ret'[w].val) = call[w].required_players
                ELSE /\ ret'[w] = None
                     /\ (g \in DOMAIN queue) = (g \in DOMAIN queue')
                     /\ g \in DOMAIN queue => queue'[g] = queue[g]
             /\ \A h \in QueueGames \ {g} :
                   /\ (h \in DOMAIN queue) = (h \in DOMAIN queue')
                   /\ h \in DOMAIN queue => queue'[h] = queue[h]]_vars

\* C11 witness: a find_match has returned a cohort of two or more players
\* and left a player waiting.
C11_CohortTakenRestWaiting ==
    \E w \in Workers :
        /\ pc[w] = "done"
        /\ call[w].op = "find_match"
        /\ ret[w].kind = "Some"
        /\ Len(ret[w].val) >= 2
        /\ \E g \in QueueGames : g \in DOMAIN queue /\ queue[g] # <<>>

\* =====================================================================
\* Claims about broadcast
\* =====================================================================
Deliveries(to, message) == {k \in 1..Len(sent) : sent[k] = Delivery(to, message)}

\* C12: broadcast_to_room(room_id, message, exclude) initiates delivery
\* exactly once to every player the room holds other than the excluded
\* player and never to the excluded player; with no exclusion every member
\* is a recipient; for an unknown room nothing is delivered.
C12_OneDeliveryPerMember ==
    \A i \in 1..Len(log) :
        log[i].done =>
            \A p \in Players :
                Cardinality(Deliveries(p, log[i].message)) =
                    IF p \in log[i].members /\ log[i].exclude_player # Some(p)
                    THEN 1 ELSE 0

\* C13: broadcast_to_room never sends to a recipient while it holds the
\* rooms lock: the lock is released before the first delivery, so joins,
\* leaves and pose updates are not kept waiting by a fan-out.
C13_NoSendUnderRoomsLock ==
    [][\A w \in Workers :
          (pc[w] = "broadcast_locked" /\ call'[w] # call[w] /\ sent' # sent) =>
             rooms_lock # w]_vars

\* C14: if broadcasts B1 and B2 to the same room are serialized by the
\* registry (B1 was through with the room before B2 looked at it), every
\* player who receives both is sent B1's message before B2's.
C14_DeliveriesKeepBroadcastOrder ==
    \A i \in 1..Len(log), j \in 1..Len(log) :
        (i < j /\ log[i].room_id = log[j].room_id) =>
            \A p \in Players :
                \A a \in Deliveries(p, log[i].message), b \in Deliveries(p, log[j].message) :
                    a < b

\* C14 witness: two broadcasts of two workers to one room are done and one
\* player was sent both messages.
C14_TwoBroadcastsOneRecipient ==
    /\ Len(log) >= 2
    /\ log[1].done /\ log[2].done
    /\ log[1].caller # log[2].caller
    /\ log[1].room_id = log[2].room_id
    /\ \E p \in Players :
          Deliveries(p, log[1].message) # {} /\ Deliveries(p, log[2].message) # {}

\* =====================================================================
\* Claims about the voice overlay
\* =====================================================================
\* C15: no room has a voice entry with nobody enrolled: the leave that
\* removes the last enrollee deletes the entry; a leave for a room without
\* an entry, or of a player who is not enrolled, changes no membership.
C15_NoEmptyVoiceChannel ==
    [][/\ \A r \in DOMAIN active_channels' : active_channels'[r] # <<>>
       /\ \A w \in Workers, r \in RoomIds, p \in Players :
             ( /\ pc[w] = "leave_voice_locked" /\ pc'[w] = "done"
               /\ call[w].room_id = r /\ call[w].player_id = p
               /\ p \notin Enrolled(r) )
             => active_channels' = active_channels]_vars

\* C15 witness: one worker's join_voice_channel and the other worker's
\* leave_voice_channel have both returned and no channel is left: the
\* leave took out the last enrollee and the entry with it.
C15_LastEnrolleeLeft ==
    /\ active_channels = EmptyMap
    /\ \E w \in Workers, v \in Workers :
          /\ pc[w] = "done" /\ call[w].op = "join_voice_channel"
          /\ pc[v] = "done" /\ call[v].op = "leave_voice_channel"

\* C16: the voice membership of a room is a set: each player is enrolled
\* at most once per room whatever joins and leaves were made, so
\* broadcast_audio delivers the frame exactly once to every enrollee other
\* than the sender and never to the sender.
C16_VoiceMembershipIsSet ==
    /\ \A r \in DOMAIN active_channels :
          \A a \in 1..Len(active_channels[r]), b \in 1..Len(active_channels[r]) :
              a # b => active_channels[r][a] # active_channels[r][b]
    /\ \A i \in 1..Len(log) :
          log[i].done =>
              \A p \in Players :
                  Cardinality(Deliveries(p, log[i].message)) =
                      IF p \in log[i].members /\ p # log[i].sender_id THEN 1 ELSE 0

\* =====================================================================
\* Further claims about the room registry
\* =====================================================================
\* C17: update_player(p, pose) returns Some(r) exactly when p is a member
\* of room r and None when p is in no room; once it has returned Some(r),
\* get_room_players(r) shows pose as p's pose.
C17_UpdateReturnsRoomOfMember ==
    (log # <<>> /\ log[1].call.op = "update_player" /\ log[1].ret # Pending) =>
        LET p == log[1].call.player_id
            pose == log[1].call.transform
        IN /\ log[1].held_in = {} => log[1].ret = None
           /\ log[1].held_in # {} =>
                 /\ log[1].ret.kind = "Some"
                 /\ log[1].ret.val \in log[1].held_in
                 /\ \A k \in 1..Len(get_room_players(log[1].ret.val)) :
                       get_room_players(log[1].ret.val)[k].player_id = p =>
                          get_room_players(log[1].ret.val)[k].transform = pose

\* =====================================================================
\* Further claims about the account service
\* =====================================================================
FailedLogins == {i \in 1..Len(log) : log[i].ret # Pending /\ ~log[i].ret.success}

C19_TokenValidUntilExpiry ==
    [][/\ \A w \in Workers :
             (Ready(w) /\ pc'[w] = "done" /\ call'[w] # call[w]
                       /\ call'[w].op = "verify_token") =>
                LET token == call'[w].token
                IN /\ token.exp = token.iat + 30 * 86400
                   /\ now < token.exp => ret'[w] = Some(token.sub)
                   /\ now > token.exp => ret'[w] = None
       /\ \A i \in 1..Len(log'), j \in 1..Len(log') :
             ( /\ log'[i].by = "signup" /\ log'[j].by = "login"
               /\ log'[i].email = log'[j].email
               /\ log'[i].password = log'[j].password
               /\ \A k \in 1..Len(log') :
                     (log'[k].by = "signup" /\ log'[k].email = log'[i].email) => k = i )
             => log'[i].token.sub = log'[j].token.sub]_vars

\* C20: create_room(game_id, host_id, capacity) adds exactly one room,
\* under an id the registry did not hold, public, with the given capacity
\* and nobody in it; the host is not placed into it, the reverse index and
\* the existing rooms stay as they were, and get_room of the returned id
\* is Some right after.
C20_CreateRoomAddsOneEmptyRoom ==
    [][\A w \in Workers, id \in RoomIds :
          (pc[w] = "create_locked" /\ pc'[w] = "done" /\ ret'[w] = Some(id)) =>
             /\ id \notin DOMAIN rooms
             /\ DOMAIN rooms' = DOMAIN rooms \cup {id}
             /\ \A r \in DOMAIN rooms : rooms'[r] = rooms[r]
             /\ player_to_room' = player_to_room
             /\ get_room(id)'.kind = "Some"
             /\ get_room(id)'.val.room_id = id
             /\ get_room(id)'.val.is_public
             /\ get_room(id)'.val.players = <<>>
             /\ get_room(id)'.val.max_players = call[w].room.max_players
             /\ get_room(id)'.val.game_id = call[w].room.game_id
             /\ get_room(id)'.val.host_id = call[w].room.host_id]_vars

\* C20 witness: a create_room has returned the id of a second room of
\* capacity >= 1, which holds nobody, while the first room holds a player.
C20_SecondRoomCreatedEmpty ==
    \E w \in Workers, id \in RoomIds, other \in RoomIds :
        /\ pc[w] = "done" /\ call[w].op = "create_room" /\ ret[w] = Some(id)
        /\ id \in DOMAIN rooms /\ rooms[id].players = <<>> /\ rooms[id].max_players >= 1
        /\ other \in DOMAIN rooms /\ other # id /\ rooms[other].players # <<>>

\* C21: find_rooms(game_id) returns exactly the rooms of the registry that
\* belong to game_id, are public and hold fewer players than their
\* capacity, each with its player count and capacity: a room at capacity
\* is not listed, and is listed again once a player has left it.
C21_FindRoomsListsOpenRooms ==
    [][\A w \in Workers, g \in ListedGames :
          (pc[w] = "find_rooms_locked" /\ pc'[w] = "done" /\ call[w].game_id = g) =>
             /\ ret'[w].kind = "Vec"
             /\ \A r \in DOMAIN rooms :
                   ( /\ rooms[r].game_id = g
                     /\ rooms[r].is_public
                     /\ Len(rooms[r].players) < rooms[r].max_players )
                   <=> <<r, Len(rooms[r].players), rooms[r].max_players>> \in ret'[w].val
             /\ \A entry \in ret'[w].val :
                   /\ entry[1] \in DOMAIN rooms
                   /\ entry[2] = Len(rooms[entry[1]].players)
                   /\ entry[3] = rooms[entry[1]].max_players]_vars

\* C21 witness: find_rooms has listed a room while another room of the
\* same game, of capacity >= 1 and full, is not in the list.
C21_FullRoomNotListed ==
    \E w \in Workers :
        /\ pc[w] = "done" /\ call[w].op = "find_rooms"
        /\ \E entry \in ret[w].val, r \in DOMAIN rooms :
              /\ entry[1] \in DOMAIN rooms
              /\ rooms[r].game_id = rooms[entry[1]].game_id
              /\ rooms[r].max_players >= 1
              /\ Len(rooms[r].players) = rooms[r].max_players
              /\ \A other \in ret[w].val : other[1] # r

\* =====================================================================
\* Further claims about matchmaking
\* =====================================================================
RECURSIVE Strip(_, _)
Strip(players, player_id) ==
    IF players = <<>> THEN <<>>
    ELSE IF Head(players) = player_id THEN Strip(Tail(players), player_id)
    ELSE <<Head(players)>> \o Strip(Tail(players), player_id)

Waiters(game_id) == {Fifo(game_id)[k] : k \in 1..Len(Fifo(game_id))}

\* C22: leave_queue(game_id, player_id) removes every occurrence of the
\* player from the game's queue, keeps the other entries in their order and
\* changes nothing when the player or the queue is absent; afterwards a
\* find_match for that game returns the player only if the player has
\* joined the queue again.
C22_LeaveQueueRemovesAll ==
    [][\A w \in Workers, g \in QueueGames, p \in QueuePlayers :
          /\ ( /\ pc[w] = "leave_queue_locked" /\ pc'[w] = "done"
               /\ call[w].game_id = g /\ call[w].player_id = p )
             => /\ (g \in DOMAIN queue') = (g \in DOMAIN queue)
                /\ Fifo(g)' = Strip(Fifo(g), p)
                /\ p \notin Waiters(g)'
                /\ p \notin Waiters(g) => queue' = queue
                /\ \A h \in QueueGames \ {g} : Fifo(h)' = Fifo(h)
          /\ ( /\ pc[w] = "find_match_locked" /\ pc'[w] = "done"
               /\ call[w].game_id = g /\ ret'[w].kind = "Some"
               /\ \E k \in 1..Len(ret'[w].val) : ret'[w].val[k] = p )
             => p \in Waiters(g)
          /\ (p \notin Waiters(g) /\ p \in Waiters(g)')
             => \E v \in Workers :
                   /\ pc[v] = "join_queue_locked" /\ pc'[v] = "done"
                   /\ call[v].game_id = g /\ call[v].player_id = p]_vars

\* C22 witness: a leave_queue is done that found its player twice in the
\* queue, with another player waiting behind.
C22_TwoOccurrencesRemoved ==
    /\ log # <<>>
    /\ log[1].done
    /\ Len(log[1].before) >= 3
    /\ log[1].before[1] = log[1].player_id
    /\ log[1].before[2] = log[1].player_id
    /\ log[1].before[3] # log[1].player_id
    /\ Fifo(log[1].game_id) = <<log[1].before[3]>>

\* =====================================================================
\* Claims about locking
\* =====================================================================
\* C23: no deadlock: under a fair scheduler every call of create_room,
\* join_room, leave_room, update_player, get_room, get_room_players,
\* find_rooms, broadcast_to_room and get_stats that is in flight
\* eventually returns; no worker waits forever for a lock.
C23_EveryCallReturns ==
    \A w \in Workers : (InFlight(w) ~> (pc[w] = "done"))

\* C23 witness: one worker holds the rooms lock while the other, having
\* dropped the reverse-index lock, waits for the rooms lock.
C23_WaitingForRoomsLock ==
    \E w \in Workers, v \in Workers :
        /\ v # w
        /\ pc[w] \in {"leave_wait_rooms", "update_wait_rooms"}
        /\ rooms_lock = v
        /\ pc[v] \in {"join_locked", "stats_rooms_locked", "broadcast_locked"}

\* C24: once every call in flight has returned, after any interleaving of
\* concurrent join_room and leave_room calls, every entry p -> r of
\* player_to_room names a room r that exists and whose player list holds p.
C24_NoDanglingIndexEntry ==
    Quiescent =>
        \A p \in DOMAIN player_to_room :
            /\ player_to_room[p] \in DOMAIN rooms
            /\ p \in PlayerIds(rooms[player_to_room[p]])

\* =====================================================================
\* Further claims about the credential store
\* =====================================================================
\* C25: in every reachable state, the states between the two inserts of a
\* signup in flight included, every id the email index maps to is a key of
\* the user map; so a login that found an id for its email finds the
\* profile, and no login answers "User not found".
C25_IndexedIdsHaveProfiles ==
    /\ \A e \in DOMAIN email_to_id : email_to_id[e] \in DOMAIN users
    /\ \A w \in Workers :
          /\ pc[w] \in {"login_users_wait", "login_users_locked"}
                => call[w].user_id \in DOMAIN users
          /\ (call[w].op = "login" /\ pc[w] = "done")
                => ret[w].message # "User not found"

\* C25 witness: a signup is between its two inserts, its profile stored and
\* its email not yet indexed, while a login by the other worker has been
\* answered.
C25_BetweenTheTwoInserts ==
    \E w, v \in Workers :
        /\ pc[w] \in {"signup_email_wait", "signup_email_locked"}
        /\ call[w].user.id \in DOMAIN users
        /\ call[w].request.email \notin DOMAIN email_to_id
        /\ pc[v] = "done" /\ call[v].op = "login"
        /\ ret[v] = Failure("Invalid email or password")

\* C26: matchmaking conserves players: under any interleaving of concurrent
\* join_queue, leave_queue and find_match calls, every pushed occurrence of
\* a player id is, in every state, in exactly one of three places: still
\* in its game's queue, returned in one cohort, or removed by a
\* leave_queue; none is lost or returned twice, and a cohort holds no id
\* that was not pushed for that game.
C26_PlayersConserved ==
    \A s \in Slots :
        /\ Tally.joined[s] =
              Occurrences(Fifo(s[1]), s[2]) + Tally.matched[s] + Tally.left[s]
        /\ Tally.matched[s] <= Tally.joined[s]
        /\ Tally.matched[s] > 0 => Tally.joined[s] > 0

\* C26 witness: of three pushes for one game, one entry is still queued,
\* one was returned in a cohort and one was removed by a leave_queue.
C26_QueuedMatchedAndRemoved ==
    \E g \in QueueGames, p, q \in Leavers :
        /\ p # q
        /\ Quiescent
        /\ Tally.joined[<<g, p>>] = 2
        /\ Tally.matched[<<g, p>>] = 1
        /\ Occurrences(Fifo(g), p) = 1
        /\ Tally.joined[<<g, q>>] = 1
        /\ Tally.left[<<g, q>>] = 1

====
